---------------------------- MODULE Spec2Model ----------------------------
(* A model of the QR code service of app/main.py: the two routes of the    *)
(* FastAPI application, the helpers they call, and the framework steps     *)
(* around a handler (routing, query validation, serialising the returned   *)
(* value).  Text is a sequence of one-character strings.                   *)
EXTENDS Integers, Sequences, FiniteSets, TLC

VARIABLES
    rq,         \* per request: its position, its parameters and its outcome
    clock,      \* the process clock read by datetime.utcnow()
    jsonable,   \* whether the installed framework can serialise a nested response object
    san_pc,     \* position of the stand-alone sanitizer run
    san_in,     \* the text handed to sanitize_filename
    san_mark,   \* the length of that text when its tail began
    san_out     \* what sanitize_filename returned

vars == <<rq, clock, jsonable, san_pc, san_in, san_mark, san_out>>

Min(a, b) == IF a < b THEN a ELSE b

(***************************************************************************)
(* sanitize_filename                                                       *)
(***************************************************************************)

\* The character class of the regular expression [\\/*?:"<>|].
UnsafeChars == {"\\", "/", "*", "?", ":", "\"", "<", ">", "|"}

\* The slice bound of filename[:100].
MaxFilenameLen == 100

\* re.sub(r'[\\/*?:"<>|]', "_", filename)
ReSub(filename) ==
    [i \in 1..Len(filename) |->
        IF filename[i] \in UnsafeChars THEN "_" ELSE filename[i]]

\* A slice one short: filename[:99].
sanitize_filename_short(filename) ==
    LET substituted == ReSub(filename)
    IN  SubSeq(substituted, 1, Min(Len(substituted), MaxFilenameLen - 1))

sanitize_filename(filename) ==
    LET substituted == ReSub(filename)
    IN  SubSeq(substituted, 1, Min(Len(substituted), MaxFilenameLen))


(***************************************************************************)
(* validate_vehicle_data, generate_vehicle_qr_data                         *)
(***************************************************************************)

required_fields ==
    {"brandid", "vehiclename", "modelnumber", "regnumber", "vehicletype",
     "vehiclesubtype", "varient", "transmission", "chasisnum", "enginenumber"}

\* The keys of the vehicle_data dict the handler builds.
VehicleKeys == required_fields \cup {"description"}

\* Python truth of a str: the empty string is false.
Truthy(text) == text # <<>>

\* A list of required fields that lacks its last entry.
validate_vehicle_data_nine(data) ==
    \A field \in required_fields \ {"enginenumber"} :
        field \in DOMAIN data /\ Truthy(data[field])

validate_vehicle_data(data) ==
    \A field \in required_fields : field \in DOMAIN data /\ Truthy(data[field])

\* data.get(key, '')
DictGet(data, key) == IF key \in DOMAIN data THEN data[key] ELSE <<>>

\* json.dumps of the characters of a str: the quote and the backslash escaped.
JsonEscape(text) ==
    LET Esc[i \in 0..Len(text)] ==
            IF i = 0 THEN <<>>
            ELSE Esc[i - 1] \o
                 (IF text[i] \in {"\"", "\\"} THEN <<"\\", text[i]>> ELSE <<text[i]>>)
    IN  Esc[Len(text)]

\* json.dumps(qr_data): the keys in insertion order.  A key with the
\* punctuation around it is one element of the text; the values are spelled
\* out character by character.
generate_vehicle_qr_data(data, new_uuid, utcnow) ==
    <<"{\"id\": \"">> \o JsonEscape(<<ToString(new_uuid)>>)
    \o <<"\", \"timestamp\": \"">> \o JsonEscape(<<ToString(utcnow)>>)
    \o <<"\", \"vehicle\": {\"brand\": \"">> \o JsonEscape(DictGet(data, "brandid"))
    \o <<"\", \"name\": \"">> \o JsonEscape(DictGet(data, "vehiclename"))
    \o <<"\", \"model\": \"">> \o JsonEscape(DictGet(data, "modelnumber"))
    \o <<"\", \"reg\": \"">> \o JsonEscape(DictGet(data, "regnumber"))
    \o <<"\", \"type\": \"">> \o JsonEscape(DictGet(data, "vehicletype"))
    \o <<"\", \"subtype\": \"">> \o JsonEscape(DictGet(data, "vehiclesubtype"))
    \o <<"\", \"variant\": \"">> \o JsonEscape(DictGet(data, "varient"))
    \o <<"\", \"transmission\": \"">> \o JsonEscape(DictGet(data, "transmission"))
    \o <<"\", \"chassis\": \"">> \o JsonEscape(DictGet(data, "chasisnum"))
    \o <<"\", \"engine\": \"">> \o JsonEscape(DictGet(data, "enginenumber"))
    \o <<"\", \"description\": \"">> \o JsonEscape(DictGet(data, "description"))
    \o <<"\"}, \"system\": {\"generated_by\": \"QR Code API\", \"version\": \"2.0\"}}">>

(***************************************************************************)
(* The QR encoder (the qrcode library), as the handlers use it             *)
(***************************************************************************)

\* error_correction.upper(), on the letters the model uses.
UpperChar(c) ==
    CASE c = "l" -> "L"
      [] c = "m" -> "M"
      [] c = "q" -> "Q"
      [] c = "h" -> "H"
      [] c = "x" -> "X"
      [] OTHER -> c

StrUpper(text) == [i \in 1..Len(text) |-> UpperChar(text[i])]

\* The lookup without .upper().
ErrorCorrectLevelCased(error_correction) ==
    IF error_correction = <<"L">> THEN "L"
    ELSE IF error_correction = <<"M">> THEN "M"
    ELSE IF error_correction = <<"Q">> THEN "Q"
    ELSE IF error_correction = <<"H">> THEN "H"
    ELSE "L"

\* error_map.get(error_correction.upper(), qrcode.constants.ERROR_CORRECT_L)
ErrorCorrectLevel(error_correction) ==
    LET key == StrUpper(error_correction)
    IN  IF key = <<"L">> THEN "L"
        ELSE IF key = <<"M">> THEN "M"
        ELSE IF key = <<"Q">> THEN "Q"
        ELSE IF key = <<"H">> THEN "H"
        ELSE "L"

\* What the largest symbol (version 40) holds at level L, and what each higher
\* level costs.  The library's figures (2953, 2331, 1663, 1273 bytes) are scaled
\* down so that the vehicle payloads of the model reach the limit; a text of
\* MaxFilenameLen characters fits at every level, as it does in the library.
MaxCapacity == 110
CapacityStep == 3

LevelRank(level) ==
    CASE level = "L" -> 0 [] level = "M" -> 1 [] level = "Q" -> 2 [] level = "H" -> 3

Capacity(level) == MaxCapacity - CapacityStep * LevelRank(level)

\* The colour names the imaging library resolves.
KnownColors == {"black", "white"}

\* qr.add_data(text); qr.make(fit=True); qr.make_image(...); img.save(...):
\* the error raised, or "" when a PNG is produced.  make(fit=True) moves to
\* the smallest version that holds the text and raises only past version 40.
QREncode(text, level, fill_color, back_color) ==
    IF Len(text) > Capacity(level) THEN "DataOverflowError"
    ELSE IF fill_color \notin KnownColors \/ back_color \notin KnownColors
         THEN "ValueError: unknown color specifier"
    ELSE ""

(***************************************************************************)
(* What a handler leaves behind: the value it returned or the exception it *)
(* raised, and the calls it made on the way                                *)
(***************************************************************************)

NoVehicle == [k \in {} |-> <<>>]

\* kind: "none", "stream" (a StreamingResponse), "dict" (the vehicle
\* handler's dict), "raised" (inside the try) or "http_exception".
\* encoded: the texts handed to qr.add_data, in order; ids: the uuid4 values
\* drawn; stamps: the readings of utcnow(), in order.
NoResult ==
    [kind |-> "none", status |-> 0, prefix |-> "", message |-> "",
     media_type |-> "", filename |-> <<>>, encoded |-> <<>>, level |-> "",
     ids |-> <<>>, stamps |-> <<>>, qr_data |-> <<>>, vehicle_info |-> NoVehicle,
     generated_at |-> -1, keys |-> {}]

\* raise <exception> inside the try block; message is str(e).
Raised(message, effects) ==
    [effects EXCEPT !.kind = "raised", !.message = message]

\* except Exception as e: raise HTTPException(status_code=500, detail=f"{prefix}{str(e)}")
\* Every exception class raised in the try block, HTTPException included,
\* derives from Exception and is caught here.
ExceptException(result, prefix) ==
    IF result.kind = "raised"
    THEN [result EXCEPT !.kind = "http_exception", !.status = 500, !.prefix = prefix]
    ELSE result

(***************************************************************************)
(* GET /qrcode                                                             *)
(***************************************************************************)

\* The text handed to qr.add_data.
QrPayload(data, clean_data) == clean_data

QrTry(data, fill_color, back_color, error_correction) ==
    LET clean_data == sanitize_filename(data)
        level      == ErrorCorrectLevel(error_correction)
        payload    == QrPayload(data, clean_data)
        called     == [NoResult EXCEPT !.level = level, !.encoded = <<payload>>]
        error      == QREncode(payload, level, fill_color, back_color)
    IN  IF error # "" THEN Raised(error, called)
        ELSE [called EXCEPT !.kind = "stream", !.media_type = "image/png",
                            !.filename = <<"qrcode_">> \o clean_data \o <<".png">>,
                            !.keys = {"png"}]

generate_qrcode(p) ==
    ExceptException(
        QrTry(p.data[1], p.fill_color, p.back_color, p.error_correction),
        "QR generation failed: ")

(***************************************************************************)
(* POST /qrcode/vehicle                                                    *)
(***************************************************************************)

\* str(e) of HTTPException(status_code=400, detail=...).
MissingFields == "400: Missing required vehicle data fields"

\* The payload composed a second time for the returned dict.
ReturnedQrDataRecomposed(qr_data, vehicle_data, new_uuid, now) ==
    generate_vehicle_qr_data(vehicle_data, new_uuid, now)

\* The qr_data entry of the returned dict: the string handed to qr.add_data.
ReturnedQrData(qr_data, vehicle_data, new_uuid, now) == qr_data

VehicleTry(vehicle_data, fill_color, back_color, error_correction, new_uuid, now1, now2) ==
    IF ~validate_vehicle_data(vehicle_data)
    THEN Raised(MissingFields, NoResult)
    ELSE
    LET qr_data    == generate_vehicle_qr_data(vehicle_data, new_uuid, now1)
        clean_data == sanitize_filename(
                          vehicle_data["vehiclename"] \o <<"_">> \o vehicle_data["regnumber"])
        level      == ErrorCorrectLevel(error_correction)
        called     == [NoResult EXCEPT !.level = level, !.encoded = <<qr_data>>,
                                       !.ids = <<new_uuid>>, !.stamps = <<now1>>]
        error      == QREncode(qr_data, level, fill_color, back_color)
    IN  IF error # "" THEN Raised(error, called)
        ELSE [called EXCEPT !.kind = "dict", !.media_type = "image/png",
                            !.filename = <<"vehicle_qr_">> \o clean_data \o <<".png">>,
                            !.qr_data = ReturnedQrData(qr_data, vehicle_data, new_uuid, now2),
                            !.vehicle_info = vehicle_data,
                            !.stamps = <<now1, now2>>,
                            !.generated_at = now2,
                            !.keys = {"qr_code", "qr_data", "vehicle_info", "metadata"}]

\* vehicle_data = {'brandid': brandid, ..., 'description': description};
\* description defaults to "".
VehicleData(p) == [k \in VehicleKeys |-> DictGet(p.vehicle, k)]

generate_vehicle_qrcode(p, new_uuid, now1, now2) ==
    ExceptException(
        VehicleTry(VehicleData(p), p.fill_color, p.back_color, p.error_correction,
                   new_uuid, now1, now2),
        "Vehicle QR generation failed: ")

(***************************************************************************)
(* The framework around a handler                                          *)
(***************************************************************************)

\* @app.get("/qrcode") and @app.post("/qrcode/vehicle"): the routes of the app.
Routes == {<<"GET", "/qrcode">>, <<"POST", "/qrcode/vehicle">>}

MinSize == 1
MaxSize == 40
MinBorder == 1
MinVersion == 1
MaxVersion == 40
MinDataLen == 1

\* The declarations without le=40 on size.
QrQueryErrorsNoUpper(p) ==
    (IF p.data = <<>> \/ Len(p.data[1]) < MinDataLen THEN {"data"} ELSE {})
    \cup (IF p.size < MinSize THEN {"size"} ELSE {})
    \cup (IF p.border < MinBorder THEN {"border"} ELSE {})
    \cup (IF p.version < MinVersion \/ p.version > MaxVersion THEN {"version"} ELSE {})

\* The Query(...) declarations of generate_qrcode: the parameters in error.
QrQueryErrors(p) ==
    (IF p.data = <<>> \/ Len(p.data[1]) < MinDataLen THEN {"data"} ELSE {})
    \cup (IF p.size < MinSize \/ p.size > MaxSize THEN {"size"} ELSE {})
    \cup (IF p.border < MinBorder THEN {"border"} ELSE {})
    \cup (IF p.version < MinVersion \/ p.version > MaxVersion THEN {"version"} ELSE {})

\* The Query(...) declarations of generate_vehicle_qrcode: the ten vehicle
\* parameters are required (any string, the empty one included).
VehicleQueryErrors(p) ==
    (required_fields \ DOMAIN p.vehicle)
    \cup (IF p.size < MinSize \/ p.size > MaxSize THEN {"size"} ELSE {})
    \cup (IF p.border < MinBorder THEN {"border"} ELSE {})
    \cup (IF p.version < MinVersion \/ p.version > MaxVersion THEN {"version"} ELSE {})

QueryErrors(p) ==
    IF p.path = "/qrcode" THEN QrQueryErrors(p) ELSE VehicleQueryErrors(p)

NoResponse ==
    [status |-> 0, prefix |-> "", message |-> "", media_type |-> "",
     filename |-> <<>>, keys |-> {}, qr_data |-> <<>>, vehicle_info |-> NoVehicle,
     generated_at |-> -1]

ErrorResponse(status, prefix, message) ==
    [NoResponse EXCEPT !.status = status, !.prefix = prefix, !.message = message,
                       !.media_type = "application/json"]

\* What the framework sends for what the handler returned or raised.  A
\* Response object is sent as it is and an HTTPException as its status and
\* detail.  A dict is JSON-encoded after the handler, outside its try
\* block: the dict of generate_vehicle_qrcode holds a StreamingResponse, and
\* whether the encoder accepts that object depends on the framework
\* installed; when it does not, the error reaches the server's own handler.
ResponseOf(result, can_encode) ==
    CASE result.kind = "stream" ->
            [NoResponse EXCEPT !.status = 200, !.media_type = result.media_type,
                               !.filename = result.filename, !.keys = result.keys]
      [] result.kind = "http_exception" ->
            ErrorResponse(result.status, result.prefix, result.message)
      [] result.kind = "dict" ->
            IF can_encode
            THEN [NoResponse EXCEPT !.status = 200, !.media_type = "application/json",
                                    !.filename = result.filename, !.keys = result.keys,
                                    !.qr_data = result.qr_data,
                                    !.vehicle_info = result.vehicle_info,
                                    !.generated_at = result.generated_at]
            ELSE ErrorResponse(500, "", "Internal Server Error")

(***************************************************************************)
(* Requests                                                                *)
(***************************************************************************)

\* The requests in flight at once.
NReq == 2
Reqs == 1..NReq

MaxClock == 1
MaxUuid == 2
Uuids == 1..MaxUuid

\* How many of the ten vehicle parameters a request leaves out or sends empty.
MaxBlank == 1

EmptyDict == [k \in {} |-> <<>>]

\* A parameter that was not sent is <<>>, one that was sent is <<its text>>.
NoParams ==
    [method |-> "", path |-> "", data |-> <<>>, id |-> <<>>, size |-> 0, border |-> 0,
     version |-> 0, fill_color |-> "", back_color |-> "", error_correction |-> <<>>,
     vehicle |-> EmptyDict]

LongData == [i \in 1..(MaxFilenameLen + 1) |-> IF i = 1 THEN ":" ELSE "a"]

DataInputs ==
    {<<>>, << <<>> >>, << <<"H">> >>, << <<"a", "/", "b">> >>, << LongData >>}

SizeInputs == {MinSize - 1, MinSize, MaxSize, MaxSize + 1}
BorderInputs == {MinBorder - 1, MinBorder}
VersionInputs == {MinVersion - 1, MinVersion, MaxVersion, MaxVersion + 1}
ColorInputs == {<<"black", "white">>, <<"nocolor", "white">>, <<"black", "nocolor">>}

ErrorCorrectionInputs ==
    {<<>>, <<"l">>, <<"L">>, <<"m">>, <<"M">>, <<"q">>, <<"Q">>, <<"h">>, <<"H">>,
     <<"x">>, <<"L", "L">>, <<"l", "m">>, <<"H", "x">>}

\* The length of a description that takes the payload past the capacity of
\* the higher levels.
DescriptionLen == 77

\* The text a vehicle parameter carries when it is sent non-empty.
FieldText(k) ==
    CASE k = "vehiclename" -> <<"a", "/">>
      [] k = "regnumber" -> <<"\"", "1">>
      [] k = "description" -> [i \in 1..DescriptionLen |-> IF i = 1 THEN "\\" ELSE "d"]
      [] OTHER -> <<"x">>

\* The vehicle parameters of a request: every key sent with its text, but
\* at most MaxBlank required ones, which are left out or sent empty, and
\* the description, which is sent, sent empty or left out.
VehicleInputs ==
    { [k \in VehicleKeys \ ((IF how = "absent" THEN blank ELSE {})
                            \cup (IF desc = "absent" THEN {"description"} ELSE {})) |->
          IF k \in blank \/ (k = "description" /\ desc = "empty")
          THEN <<>> ELSE FieldText(k)] :
      blank \in {b \in SUBSET required_fields : Cardinality(b) <= MaxBlank},
      how \in {"absent", "empty"},
      desc \in {"absent", "empty", "text"} }

\* The parameters the two endpoints share, as <<size, border, version,
\* colours, error_correction>>: every combination of the numbers with two
\* error_correction texts, and every error_correction text with the numbers
\* in range.
OptionInputs ==
    { o \in SizeInputs \X BorderInputs \X VersionInputs \X ColorInputs
             \X ErrorCorrectionInputs :
        \/ o[5] \in {<<"L">>, <<"x">>}
        \/ o[1] \in {MinSize, MaxSize} /\ o[2] = MinBorder
             /\ o[3] \in {MinVersion, MaxVersion} }

WithOptions(request, o) ==
    [request EXCEPT !.size = o[1], !.border = o[2], !.version = o[3],
                    !.fill_color = o[4][1], !.back_color = o[4][2],
                    !.error_correction = o[5]]

QrRequests ==
    { WithOptions([NoParams EXCEPT !.method = "GET", !.path = "/qrcode", !.data = d], o) :
      d \in DataInputs, o \in OptionInputs }

VehicleRequests ==
    { WithOptions([NoParams EXCEPT !.method = "POST", !.path = "/qrcode/vehicle",
                                   !.vehicle = veh], o) :
      veh \in VehicleInputs, o \in OptionInputs }

\* Requests no route of the app matches: GET /barcode, and the two paths
\* under the other method.
OtherRequests ==
    { [NoParams EXCEPT !.method = "GET", !.path = "/barcode", !.id = id] :
      id \in {<<>>, << <<>> >>, << <<"1", "2", "3", "4">> >>, << <<"a", "/", "b">> >>} }
    \cup { [NoParams EXCEPT !.method = "POST", !.path = "/qrcode",
                            !.data = << <<"H">> >>],
           [NoParams EXCEPT !.method = "GET", !.path = "/qrcode/vehicle"] }

Requests == QrRequests \cup VehicleRequests \cup OtherRequests

NoRequest == [pc |-> "idle", p |-> NoParams, result |-> NoResult, response |-> NoResponse]

TypeOK ==
    /\ \A i \in Reqs :
          rq[i].pc \in {"idle", "received", "routed", "validated", "returned", "done"}
    /\ clock \in 0..MaxClock
    /\ jsonable \in BOOLEAN

Init ==
    /\ rq = [i \in Reqs |-> NoRequest]
    /\ clock = 0
    /\ jsonable \in BOOLEAN
    /\ san_pc = "head"
    /\ san_in = <<>>
    /\ san_mark = 0
    /\ san_out = <<>>

SanUnchanged == UNCHANGED <<san_pc, san_in, san_mark, san_out>>

\* A request arrives.
Receive(i, inputs) ==
    /\ rq[i].pc = "idle"
    /\ \E request \in inputs :
          rq' = [rq EXCEPT ![i].pc = "received", ![i].p = request]
    /\ UNCHANGED <<clock, jsonable>>
    /\ SanUnchanged

\* The router: 404 when no route has the path, 405 when the path is there
\* under another method.
Route(i) ==
    /\ rq[i].pc = "received"
    /\ LET p == rq[i].p
       IN  rq' = IF <<p.method, p.path>> \in Routes
                 THEN [rq EXCEPT ![i].pc = "routed"]
                 ELSE IF \E r \in Routes : r[2] = p.path
                 THEN [rq EXCEPT ![i].pc = "done",
                                 ![i].response = ErrorResponse(405, "", "Method Not Allowed")]
                 ELSE [rq EXCEPT ![i].pc = "done",
                                 ![i].response = ErrorResponse(404, "", "Not Found")]
    /\ UNCHANGED <<clock, jsonable>>
    /\ SanUnchanged

\* The query parameters are checked against the handler's declarations
\* before the handler is called; a failure ends the request with 422.
Validate(i) ==
    /\ rq[i].pc = "routed"
    /\ rq' = IF QueryErrors(rq[i].p) # {}
             THEN [rq EXCEPT ![i].pc = "done",
                             ![i].response = ErrorResponse(422, "", "validation error")]
             ELSE [rq EXCEPT ![i].pc = "validated"]
    /\ UNCHANGED <<clock, jsonable>>
    /\ SanUnchanged

\* The arguments of a handler kept in one place for all its calls: those
\* of the first request to that path that is under way.
HandlerArgsShared(i) ==
    LET same == {j \in Reqs : rq[j].pc # "idle" /\ rq[j].p.path = rq[i].p.path}
    IN  rq[CHOOSE j \in same : \A k \in same : j <= k].p

\* The arguments of the handler call of request i: its own query parameters.
HandlerArgs(i) == rq[i].p

\* The handler runs from its first line to its return or raise: neither
\* coroutine awaits.  The vehicle handler draws a uuid4 and reads the clock
\* twice.
HandleQr(i) ==
    /\ rq[i].pc = "validated"
    /\ rq[i].p.path = "/qrcode"
    /\ rq' = [rq EXCEPT ![i].pc = "returned",
                        ![i].result = generate_qrcode(HandlerArgs(i))]
    /\ UNCHANGED <<clock, jsonable>>
    /\ SanUnchanged

HandleVehicle(i) ==
    /\ rq[i].pc = "validated"
    /\ rq[i].p.path = "/qrcode/vehicle"
    /\ \E new_uuid \in Uuids, now1 \in clock..MaxClock :
         \E now2 \in now1..MaxClock :
            LET result == generate_vehicle_qrcode(HandlerArgs(i), new_uuid, now1, now2)
            IN  /\ rq' = [rq EXCEPT ![i].pc = "returned", ![i].result = result]
                /\ clock' = IF result.stamps = <<>> THEN clock
                            ELSE result.stamps[Len(result.stamps)]
    /\ UNCHANGED jsonable
    /\ SanUnchanged

\* The framework sends the response.
Respond(i) ==
    /\ rq[i].pc = "returned"
    /\ rq' = [rq EXCEPT ![i].pc = "done",
                        ![i].response = ResponseOf(rq[i].result, jsonable)]
    /\ UNCHANGED <<clock, jsonable>>
    /\ SanUnchanged

Step(i) ==
    \/ Route(i)
    \/ Validate(i)
    \/ HandleQr(i)
    \/ HandleVehicle(i)
    \/ Respond(i)

\* One request, with every input of the model.
Next ==
    \/ Receive(1, Requests)
    \/ Step(1)

Spec == Init /\ [][Next]_vars

(***************************************************************************)
(* Several requests at once: the steps of different requests interleave.   *)
(* The requests are one of each outcome that draws on what requests could  *)
(* share: a QR code served, a query rejected, a vehicle dict returned (a   *)
(* uuid and two clock readings), a vehicle request with an empty field, a  *)
(* path without a route.                                                   *)
(***************************************************************************)

VehicleFull == [k \in VehicleKeys |-> FieldText(k)]

ConcRequests ==
    { WithOptions([NoParams EXCEPT !.method = "GET", !.path = "/qrcode",
                                   !.data = << <<"a", "/", "b">> >>],
                  <<MinSize, MinBorder, MinVersion, <<"black", "white">>, <<"m">> >>),
      WithOptions([NoParams EXCEPT !.method = "GET", !.path = "/qrcode",
                                   !.data = << <<"H">> >>],
                  <<MaxSize + 1, MinBorder, MinVersion, <<"black", "white">>, <<"L">> >>),
      WithOptions([NoParams EXCEPT !.method = "POST", !.path = "/qrcode/vehicle",
                                   !.vehicle = [VehicleFull EXCEPT !["description"] = <<>>]],
                  <<MinSize, MinBorder, MinVersion, <<"black", "white">>, <<>> >>),
      WithOptions([NoParams EXCEPT !.method = "POST", !.path = "/qrcode/vehicle",
                                   !.vehicle = [VehicleFull EXCEPT !["regnumber"] = <<>>]],
                  <<MinSize, MinBorder, MinVersion, <<"black", "white">>, <<"H">> >>),
      [NoParams EXCEPT !.method = "GET", !.path = "/barcode",
                       !.id = << <<"1", "2", "3", "4">> >>] }

NextConc ==
    \E i \in Reqs :
        \/ Receive(i, ConcRequests)
        \/ Step(i)

SpecConc == Init /\ [][NextConc]_vars

(***************************************************************************)
(* sanitize_filename on its own: a text is built (a head, a long run of    *)
(* one character, a tail) and handed to the function                       *)
(***************************************************************************)

MaxHead == 1
MaxTail == 1
PadSlack == 2

HeadChars == UnsafeChars \cup {"a", "_", "."}
TailChars == {"a", "|"}
PadChars == {"a", "/"}
PadLens == {0} \cup ((MaxFilenameLen - PadSlack)..(MaxFilenameLen + PadSlack))

SanHead ==
    /\ san_pc = "head"
    /\ Len(san_in) < MaxHead
    /\ \E c \in HeadChars : san_in' = Append(san_in, c)
    /\ UNCHANGED <<rq, clock, jsonable, san_pc, san_mark, san_out>>

SanPad ==
    /\ san_pc = "head"
    /\ \E c \in PadChars, n \in PadLens :
          /\ san_in' = san_in \o [i \in 1..n |-> c]
          /\ san_mark' = Len(san_in) + n
    /\ san_pc' = "tail"
    /\ UNCHANGED <<rq, clock, jsonable, san_out>>

SanTail ==
    /\ san_pc = "tail"
    /\ Len(san_in) < san_mark + MaxTail
    /\ \E c \in TailChars : san_in' = Append(san_in, c)
    /\ UNCHANGED <<rq, clock, jsonable, san_pc, san_mark, san_out>>

SanApply ==
    /\ san_pc = "tail"
    /\ san_out' = sanitize_filename(san_in)
    /\ san_pc' = "applied"
    /\ UNCHANGED <<rq, clock, jsonable, san_in, san_mark>>

NextSan == SanHead \/ SanPad \/ SanTail \/ SanApply

SpecSan == Init /\ [][NextSan]_vars

(***************************************************************************)
(* Properties                                                              *)
(***************************************************************************)

IsQr(i) == rq[i].p.method = "GET" /\ rq[i].p.path = "/qrcode"
IsVehicle(i) == rq[i].p.method = "POST" /\ rq[i].p.path = "/qrcode/vehicle"
Done(i) == rq[i].pc = "done"
HandlerRan(i) == rq[i].result.kind # "none"

TenFields ==
    {"brandid", "vehiclename", "modelnumber", "regnumber", "vehicletype",
     "vehiclesubtype", "varient", "transmission", "chasisnum", "enginenumber"}

AllTenSent(i) == \A f \in TenFields : f \in DOMAIN rq[i].p.vehicle
SomeSentEmpty(i) ==
    \E f \in TenFields : f \in DOMAIN rq[i].p.vehicle /\ rq[i].p.vehicle[f] = <<>>
AllTenFilled(i) ==
    \A f \in TenFields : f \in DOMAIN rq[i].p.vehicle /\ Len(rq[i].p.vehicle[f]) > 0

NumbersInRange(i) ==
    /\ rq[i].p.size \in 1..40
    /\ rq[i].p.version \in 1..40
    /\ rq[i].p.border >= 1

\* C1: a POST /qrcode/vehicle request that sends one of the ten required
\* fields empty (everything else being acceptable) ends in HTTP 400 with the
\* detail "Missing required vehicle data fields".
C1_MissingFieldsGive400 ==
    \A i \in Reqs :
        (Done(i) /\ IsVehicle(i) /\ AllTenSent(i) /\ SomeSentEmpty(i) /\ NumbersInRange(i))
        => /\ rq[i].response.status = 400
           /\ rq[i].response.prefix = ""
           /\ rq[i].response.message = "Missing required vehicle data fields"

\* C2: on GET /qrcode the text handed to the QR encoder is the request's
\* data parameter itself, neither character-substituted nor truncated.
C2_EncoderGetsData ==
    \A i \in Reqs :
        (IsQr(i) /\ rq[i].result.encoded # <<>>)
        => rq[i].result.encoded = <<rq[i].p.data[1]>>

C3_Rejected(i) ==
    \/ ~NumbersInRange(i)
    \/ IsQr(i) /\ rq[i].p.data = << <<>> >>

\* C3: on both QR endpoints a request whose size or version is outside
\* [1,40], whose border is below 1 or (on /qrcode) whose data is empty is
\* rejected with a validation error (a 4xx), and the handler, hence the
\* encoder, is never entered for it.
C3_RejectedBeforeEncoding ==
    \A i \in Reqs :
        ((IsQr(i) \/ IsVehicle(i)) /\ C3_Rejected(i))
        => /\ rq[i].result = NoResult
           /\ rq[i].pc \in {"received", "routed", "done"}
           /\ Done(i) => rq[i].response.status \in 400..499

C3_Witness ==
    \E i \in Reqs :
        /\ Done(i) /\ IsVehicle(i) /\ AllTenFilled(i)
        /\ rq[i].p.size = 41 /\ rq[i].p.version = 1 /\ rq[i].p.border = 1
        /\ rq[i].response.status = 422

\* C4: every request ends in success, a 4xx or a 5xx, and every failure
\* of a request that reached a handler ends in HTTP 500 with the detail
\* prefixed by the operation.
C4_FailuresAreMapped ==
    \A i \in Reqs :
        Done(i)
        => /\ rq[i].response.status \in {200} \cup (400..599)
           /\ (rq[i].response.status >= 500 /\ IsQr(i))
                => rq[i].response.prefix = "QR generation failed: "
           /\ (rq[i].response.status >= 500 /\ IsVehicle(i))
                => rq[i].response.prefix = "Vehicle QR generation failed: "

\* C5: on POST /qrcode/vehicle the required-field check comes first: when
\* one of the ten fields is empty no identifier or timestamp is drawn and
\* the encoder is not called; when all ten are non-empty (whatever the
\* description) one identifier is drawn, the payload composed and handed to
\* the encoder.
C5_FieldCheckFirst ==
    \A i \in Reqs :
        (IsVehicle(i) /\ HandlerRan(i))
        => IF AllTenFilled(i)
           THEN /\ Len(rq[i].result.ids) = 1
                /\ Len(rq[i].result.stamps) >= 1
                /\ Len(rq[i].result.encoded) = 1
           ELSE /\ rq[i].result.ids = <<>>
                /\ rq[i].result.stamps = <<>>
                /\ rq[i].result.encoded = <<>>
                /\ rq[i].result.kind = "http_exception"

C5_Witness ==
    \E i \in Reqs :
        /\ IsVehicle(i) /\ HandlerRan(i) /\ ~AllTenFilled(i)
        /\ "description" \in DOMAIN rq[i].p.vehicle
        /\ rq[i].p.vehicle["description"] # <<>>
        /\ rq[i].result.ids = <<>>
        /\ rq[i].result.encoded = <<>>

C6_Nine == {"\\", "/", "*", "?", ":", "\"", "<", ">", "|"}

\* C6: sanitize_filename returns the first min(len(s), 100) characters of
\* s with each of \ / * ? : " < > | replaced by _ and every other character
\* in place: none of the nine is left, the length is at most 100, and
\* exactly 100 when s is longer.
C6_Sanitized ==
    san_pc = "applied"
    => /\ Len(san_out) = (IF Len(san_in) < 100 THEN Len(san_in) ELSE 100)
       /\ \A k \in 1..Len(san_out) :
             san_out[k] = (IF san_in[k] \in C6_Nine THEN "_" ELSE san_in[k])
       /\ \A k \in 1..Len(san_out) : san_out[k] \notin C6_Nine
       /\ Len(san_in) > 100 => Len(san_out) = 100

C6_Witness ==
    /\ san_pc = "applied"
    /\ Len(san_in) = 101
    /\ san_in[1] = "\\"
    /\ san_in[100] = "/"
    /\ san_in[101] = "|"
    /\ Len(san_out) = 100

C7_Level(text) ==
    IF text \in {<<"l">>, <<"L">>} THEN "L"
    ELSE IF text \in {<<"m">>, <<"M">>} THEN "M"
    ELSE IF text \in {<<"q">>, <<"Q">>} THEN "Q"
    ELSE IF text \in {<<"h">>, <<"H">>} THEN "H"
    ELSE "L"

\* C7: error_correction maps case-insensitively to a level: l/L, m/M, q/Q,
\* h/H to their level and every other text to L; it is never a cause of
\* rejection (a request is rejected with a 4xx only for another parameter).
C7_ErrorCorrectionMapped ==
    \A i \in Reqs :
        /\ (HandlerRan(i) /\ (IsQr(i) \/ AllTenFilled(i)))
             => rq[i].result.level = C7_Level(rq[i].p.error_correction)
        /\ (Done(i) /\ (IsQr(i) \/ IsVehicle(i)) /\ rq[i].response.status \in 400..499)
             => \/ ~NumbersInRange(i)
                \/ IsQr(i) /\ (rq[i].p.data = <<>> \/ rq[i].p.data = << <<>> >>)
                \/ IsVehicle(i) /\ ~AllTenSent(i)

C7_Witness ==
    \E i \in Reqs :
        /\ Done(i) /\ IsVehicle(i)
        /\ rq[i].p.error_correction = <<"q">>
        /\ rq[i].result.level = "Q"
        /\ rq[i].result.message = "DataOverflowError"

\* C8: GET /barcode with a non-empty id ends in success with media type
\* image/png and the attachment filename barcode_<sanitized id>.png.
C8_BarcodeServed ==
    \A i \in Reqs :
        (Done(i) /\ rq[i].p.method = "GET" /\ rq[i].p.path = "/barcode"
           /\ rq[i].p.id # <<>> /\ rq[i].p.id # << <<>> >>)
        => /\ rq[i].response.status = 200
           /\ rq[i].response.media_type = "image/png"
           /\ rq[i].response.filename
                = <<"barcode_">> \o sanitize_filename(rq[i].p.id[1]) \o <<".png">>

C10_Served(p) == <<p.method, p.path>> \in Routes /\ QueryErrors(p) = {}

C10_AloneResult(p, new_uuid, now1, now2) ==
    IF ~C10_Served(p) THEN NoResult
    ELSE IF p.path = "/qrcode" THEN generate_qrcode(p)
    ELSE generate_vehicle_qrcode(p, new_uuid, now1, now2)

C10_AloneResponse(p, result) ==
    IF <<p.method, p.path>> \notin Routes
    THEN ErrorResponse(IF p.path \in {"/qrcode", "/qrcode/vehicle"} THEN 405 ELSE 404, "",
                       IF p.path \in {"/qrcode", "/qrcode/vehicle"}
                       THEN "Method Not Allowed" ELSE "Not Found")
    ELSE IF QueryErrors(p) # {} THEN ErrorResponse(422, "", "validation error")
    ELSE ResponseOf(result, jsonable)

\* C10: under any interleaving, what a request has got (the handler's
\* result, the encoder's input, the filename, the response) is what the
\* same request gets when it is handled alone with the id and the clock
\* readings it drew: nothing of it depends on another request.
C10_Independent ==
    \A i \in Reqs :
        /\ rq[i].pc = "idle" => rq[i] = NoRequest
        /\ rq[i].pc \in {"received", "routed", "validated"}
             => rq[i].result = NoResult /\ rq[i].response = NoResponse
        /\ rq[i].pc \in {"returned", "done"}
             => LET drawn == rq[i].result.ids
                    read  == rq[i].result.stamps
                    new_uuid == IF drawn = <<>> THEN 1 ELSE drawn[1]
                    now1 == IF read = <<>> THEN 0 ELSE read[1]
                    now2 == IF Len(read) < 2 THEN now1 ELSE read[2]
                IN  /\ rq[i].result = C10_AloneResult(rq[i].p, new_uuid, now1, now2)
                    /\ rq[i].response =
                         IF Done(i) THEN C10_AloneResponse(rq[i].p, rq[i].result)
                         ELSE NoResponse

C10_Witness ==
    \E i, j \in Reqs :
        /\ i # j
        /\ Done(i) /\ IsQr(i) /\ rq[i].response.status = 200
        /\ rq[j].pc = "returned" /\ IsVehicle(j) /\ rq[j].result.kind = "dict"

=============================================================================
